---------------------------- MODULE Spec2Model ----------------------------
(***************************************************************************)
(* CRAQ chain a -> b -> c -> d (craq_cluster.py) of CraqServer replicas     *)
(* (craq_server.py).  Every replica keeps a clean map `store`, a dirty map  *)
(* `temp_store` and one lock per key; a handler holds the key's lock of its *)
(* replica across its synchronous send to the next replica.                 *)
(*                                                                         *)
(* A client request is one nested chain of synchronous calls, so it is      *)
(* modelled by one record op[c]: the replica whose turn it is (`at`) and    *)
(* whether the request is travelling down ("call") or a response is         *)
(* travelling back up ("resp").  Every replica strictly between the origin  *)
(* of the request and `at` holds its lock for the key.                      *)
(*                                                                         *)
(* Spec is the chain with the clients of craq_cluster.py and one key;       *)
(* FairSpec adds fair scheduling of the handlers, TwoKeySpec a second key,  *)
(* DirectSpec a client that sends a SET to a replica other than the head.   *)
(***************************************************************************)
EXTENDS Integers, Sequences, FiniteSets, TLC

\* ---- the chain (craq_cluster.py) ----------------------------------------
N == 4
ChainHead == 1
ChainTail == N
Replicas == 1..N
None == 0

\* ---- bounds of the model -------------------------------------------------
NumWriters == 1
NumReaders == 1
NumKeys == 1
MaxSets == 3
MaxGets == 2
MaxQueries == 1
MaxFails == 1

\* clients that write and clients that read; every client is sequential
Writers == 1..NumWriters
Readers == (NumWriters + 1)..(NumWriters + NumReaders)
Clients == Writers \cup Readers
Keys == 1..NumKeys

\* store, temp_store, locks: the three maps of every CraqServer.
\* op: the request every client has in flight; res: the last response every
\* client received.  nsets, ngets, nqueries, nfails count the requests and the
\* failed sends so far.  subm, lastOk and maxRet are history: per key, the
\* number of SETs submitted, the (version, value) of the last SET answered
\* OK, and the highest version a GET has returned.
VARIABLES store, temp_store, locks, op, res, nsets, ngets, nqueries, nfails,
          subm, lastOk, maxRet

vars == <<store, temp_store, locks, op, res, nsets, ngets, nqueries, nfails,
          subm, lastOk, maxRet>>

\* next / prev of a replica, None at the ends (CraqCluster.next / .prev).
\* nextShort: c is given no successor; nextRing: the tail is given the head.
nextShort(r) == IF r >= N - 1 THEN None ELSE r + 1

nextRing(r) == IF r = N THEN 1 ELSE r + 1

next(r) == IF r = N THEN None ELSE r + 1

prev(r) == IF r = 1 THEN None ELSE r - 1

\* ---- the clean map: store[key] = (version, value), absent = << >> ---------
NoEntry == << >>

InStore(entry) == entry # NoEntry

\* self.store[req.key] = (req.version, req.val)
Commit(old, ver, val) == <<ver, val>>

\* ---- the dirty map: temp_store[key] is a dict version -> value ------------
\* (a key missing from temp_store and a key with an empty dict behave alike
\*  in every test the handlers make, so both are the empty dict here)
NoDirty == << >>

HasDirty(d) == DOMAIN d # {}

MaxOf(S) == CHOOSE m \in S : \A x \in S : x <= m

\* self.temp_store[req.key][req.version] = req.val
DirtyPut(d, ver, val) ==
    [v \in DOMAIN d \cup {ver} |-> IF v = ver THEN val ELSE d[v]]

\* del self.temp_store[req.key][req.version]
DirtyKeep(d, ver) == d

DirtyDel(d, ver) == [v \in DOMAIN d \ {ver} |-> d[v]]

\* the version the head gives a client SET
HeadVersion(d, entry) ==
    LET current_version ==
            IF HasDirty(d) THEN MaxOf(DOMAIN d)
            ELSE IF InStore(entry) THEN entry[1]
            ELSE 0
    IN  current_version + 1

\* ---- the locks: self.locks[key], one Lock per key, None = not held --------
\* with self.locks[req.key]: the handler goes on once the key's lock is free
LockFreeAll(held, k) == \A j \in DOMAIN held : held[j] = None

LockFree(held, k) == held[k] = None

\* ---- requests ------------------------------------------------------------
\* A request in flight.  ver: the version of a SET; st, rv: the status and
\* the "ver" of the response travelling back.  The other fields are history
\* taken when the request was invoked: pok the version of the last SET
\* answered OK, fRet the highest version a GET had returned, fAck the value
\* of the last SET answered OK, busy whether a SET was in flight and fl its
\* value, mine the version the same client's previous GET returned, ns the
\* number of SETs submitted and sk the number submitted for the key; failed:
\* a send of this request failed; tv: the version of the tail's clean entry
\* when the tail handled the QUERY.
Idle ==
    [type |-> "idle", key |-> 0, val |-> 0, ver |-> 0, origin |-> 0, at |-> 0,
     phase |-> "", st |-> "", rv |-> 0, tv |-> 0, failed |-> FALSE,
     pok |-> 0, fRet |-> 0, fAck |-> 0, busy |-> FALSE, fl |-> 0,
     mine |-> 0, ns |-> 0, sk |-> 0]

\* A response as the client received it, with the history of its request;
\* nf, ek: as ns and sk, when the response arrived.
NoRes ==
    [type |-> "none", key |-> 0, rep |-> 0, status |-> "", val |-> 0, ver |-> 0,
     tv |-> 0, failed |-> FALSE, pok |-> 0, fRet |-> 0, fAck |-> 0,
     busy |-> FALSE, fl |-> 0, mine |-> 0, ns |-> 0, sk |-> 0, nf |-> 0,
     ek |-> 0]

\* a SET for key k is between its invocation at the head and its response
SetInFlight(k) == \E c \in Clients : op[c].type = "SET" /\ op[c].key = k

\* the value that SET is writing, 0 when there is none (the head's lock
\* admits one SET per key at a time)
InFlightVal(k) ==
    IF SetInFlight(k)
    THEN LET w == CHOOSE c \in Clients : op[c].type = "SET" /\ op[c].key = k
         IN  op[w].val
    ELSE 0

Max(a, b) == IF a >= b THEN a ELSE b

Init ==
    /\ store = [r \in Replicas |-> [k \in Keys |-> NoEntry]]
    /\ temp_store = [r \in Replicas |-> [k \in Keys |-> NoDirty]]
    /\ locks = [r \in Replicas |-> [k \in Keys |-> None]]
    /\ op = [c \in Clients |-> Idle]
    /\ res = [c \in Clients |-> NoRes]
    /\ nsets = 0
    /\ ngets = 0
    /\ nqueries = 0
    /\ nfails = 0
    /\ subm = [k \in Keys |-> 0]
    /\ lastOk = [k \in Keys |-> <<0, 0>>]
    /\ maxRet = [k \in Keys |-> 0]

\* ---- SET -----------------------------------------------------------------
\* if self.prev is None: only the head assigns the version
AssignsVersion(r) == prev(r) = None

\* if self.next is not None: every replica but the tail forwards
ForwardsAlways(r) == TRUE

Forwards(r) == next(r) # None

\* CraqClient.set sends the SET to conns[0], the head.  The head's _set takes
\* the key's lock, assigns the version, inserts the dirty entry and sends the
\* request to next.  The value written is the number of the write.  A client
\* request starts here at the moment its handler has the lock: a request
\* waiting for the lock is one that has not started yet.
ClientSet(c, k) ==
    /\ op[c].type = "idle"
    /\ nsets < MaxSets
    /\ LockFree(locks[ChainHead], k)
    /\ AssignsVersion(ChainHead)
    /\ Forwards(ChainHead)
    /\ LET ver == HeadVersion(temp_store[ChainHead][k], store[ChainHead][k])
           val == nsets + 1
       IN  /\ temp_store' = [temp_store EXCEPT
                                ![ChainHead][k] = DirtyPut(@, ver, val)]
           /\ op' = [op EXCEPT ![c] =
                        [Idle EXCEPT !.type = "SET", !.key = k, !.val = val,
                                     !.ver = ver, !.origin = ChainHead,
                                     !.at = next(ChainHead), !.phase = "call",
                                     !.pok = lastOk[k][1]]]
    /\ locks' = [locks EXCEPT ![ChainHead][k] = c]
    /\ nsets' = nsets + 1
    /\ subm' = [subm EXCEPT ![k] = @ + 1]
    /\ UNCHANGED <<store, res, ngets, nqueries, nfails, lastOk, maxRet>>

\* what the client sees of a finished SET
SetResult(o, status) ==
    [NoRes EXCEPT !.type = "SET", !.key = o.key, !.rep = o.origin,
                  !.status = status, !.val = o.val, !.ver = o.ver,
                  !.failed = o.failed, !.pok = o.pok]

\* A client that does not go through CraqClient sends its SET, which has no
\* "ver", to a replica r that is not the head.  _set on r assigns nothing
\* (self.prev is not None), so req.version is None: an interior replica
\* inserts the dirty entry under None and forwards, the tail writes the
\* clean entry (None, val) and answers OK.
ClientSetAt(c, r, k) ==
    /\ op[c].type = "idle"
    /\ nsets < MaxSets
    /\ LockFree(locks[r], k)
    /\ ~AssignsVersion(r)
    /\ LET val == nsets + 1
           o == [Idle EXCEPT !.type = "SET", !.key = k, !.val = val,
                             !.ver = None, !.origin = r,
                             !.pok = lastOk[k][1]]
       IN  IF Forwards(r)
           THEN /\ locks' = [locks EXCEPT ![r][k] = c]
                /\ temp_store' = [temp_store EXCEPT
                                     ![r][k] = DirtyPut(@, None, val)]
                /\ op' = [op EXCEPT ![c] =
                             [o EXCEPT !.at = next(r), !.phase = "call"]]
                /\ UNCHANGED <<store, res, lastOk>>
           ELSE /\ store' = [store EXCEPT ![r][k] = Commit(@, None, val)]
                /\ res' = [res EXCEPT ![c] = SetResult(o, "OK")]
                /\ lastOk' = [lastOk EXCEPT ![k] = <<None, val>>]
                /\ UNCHANGED <<locks, temp_store, op>>
    /\ nsets' = nsets + 1
    /\ subm' = [subm EXCEPT ![k] = @ + 1]
    /\ UNCHANGED <<ngets, nqueries, nfails, maxRet>>

\* _set on a replica that received the forwarded SET: an interior replica
\* inserts the dirty entry and forwards, the tail writes the clean entry
\* and answers OK.
SetRecv(c) ==
    LET o == op[c]
        r == o.at
    IN  /\ o.type = "SET"
        /\ o.phase = "call"
        /\ LockFree(locks[r], o.key)
        /\ IF Forwards(r)
           THEN /\ locks' = [locks EXCEPT ![r][o.key] = c]
                /\ temp_store' = [temp_store EXCEPT
                                     ![r][o.key] = DirtyPut(@, o.ver, o.val)]
                /\ op' = [op EXCEPT ![c].at = next(r)]
                /\ UNCHANGED store
           ELSE /\ store' = [store EXCEPT
                                ![r][o.key] = Commit(@, o.ver, o.val)]
                /\ op' = [op EXCEPT ![c].at = prev(r), ![c].phase = "resp",
                                    ![c].st = "OK"]
                /\ UNCHANGED <<locks, temp_store>>
        /\ UNCHANGED <<res, nsets, ngets, nqueries, nfails, subm, lastOk,
                       maxRet>>

\* The send of a SET from a replica to its next fails before the request is
\* delivered: the sender gets a response that is not OK ("ERR"), or the
\* send raises ("EXC").  Only the forward of a SET fails this way; a QUERY
\* fails only at the tail, on a key the tail does not hold.
SetFail(c) ==
    LET o == op[c]
    IN  /\ o.type = "SET"
        /\ o.phase = "call"
        /\ nfails < MaxFails
        /\ \E how \in {"ERR", "EXC"} :
              op' = [op EXCEPT ![c].at = prev(o.at), ![c].phase = "resp",
                               ![c].st = how, ![c].failed = TRUE]
        /\ nfails' = nfails + 1
        /\ UNCHANGED <<store, temp_store, locks, res, nsets, ngets, nqueries,
                       subm, lastOk, maxRet>>

\* The response to a forwarded SET is lost on its way back: the next replica
\* has handled the SET and returned OK, and the send raises at the sender.
SetReplyFail(c) ==
    LET o == op[c]
    IN  /\ o.type = "SET"
        /\ o.phase = "resp"
        /\ o.st = "OK"
        /\ nfails < MaxFails
        /\ op' = [op EXCEPT ![c].st = "EXC", ![c].failed = TRUE]
        /\ nfails' = nfails + 1
        /\ UNCHANGED <<store, temp_store, locks, res, nsets, ngets, nqueries,
                       subm, lastOk, maxRet>>

\* the status _set returns once its send has returned a response: the
\* response is not looked at
StatusAfterSend(st) == "OK"

\* _set after its send returned: the clean entry is set, the dirty entry
\* deleted and OK returned.  When the send raised, the handler is left by
\* the exception: the lock is released by `with`, the dirty entry stays and
\* the caller's send fails in turn.
SetResume(c) ==
    LET o == op[c]
        r == o.at
        k == o.key
    IN  /\ o.type = "SET"
        /\ o.phase = "resp"
        /\ locks' = [locks EXCEPT ![r][k] = None]
        /\ IF o.st # "EXC"
           THEN /\ store' = [store EXCEPT ![r][k] = Commit(@, o.ver, o.val)]
                /\ temp_store' = [temp_store EXCEPT
                                     ![r][k] = DirtyDel(@, o.ver)]
                /\ IF r = o.origin
                   THEN /\ op' = [op EXCEPT ![c] = Idle]
                        /\ res' = [res EXCEPT ![c] =
                                     SetResult(o, StatusAfterSend(o.st))]
                        /\ lastOk' = [lastOk EXCEPT ![k] =
                                        IF StatusAfterSend(o.st) = "OK"
                                        THEN <<o.ver, o.val>> ELSE @]
                   ELSE /\ op' = [op EXCEPT ![c].at = prev(r),
                                           ![c].st = StatusAfterSend(o.st)]
                        /\ UNCHANGED <<res, lastOk>>
           ELSE /\ UNCHANGED <<store, temp_store, lastOk>>
                /\ IF r = o.origin
                   THEN /\ op' = [op EXCEPT ![c] = Idle]
                        /\ res' = [res EXCEPT ![c] = SetResult(o, "FAIL")]
                   ELSE /\ \E how \in {"ERR", "EXC"} :
                              op' = [op EXCEPT ![c].at = prev(r),
                                               ![c].st = how]
                        /\ UNCHANGED res
        /\ UNCHANGED <<nsets, ngets, nqueries, nfails, subm, maxRet>>

\* ---- GET and QUERY -------------------------------------------------------
NotFound == [status |-> "Key not found", val |-> 0, ver |-> 0]

Found(ver, val) == [status |-> "OK", val |-> val, ver |-> ver]

\* _get, clean path: no dirty entry for the key
GetCleanAlwaysOk(entry) ==
    IF InStore(entry) THEN Found(entry[1], entry[2]) ELSE Found(0, 0)

GetClean(entry) ==
    IF InStore(entry) THEN Found(entry[1], entry[2]) ELSE NotFound

\* _get, dirty path, once the QUERY answered tail_committed_version (None
\* when the response carries no "ver")
GetDirtyCleanFirst(d, entry, tail_committed_version) ==
    IF InStore(entry) THEN Found(entry[1], entry[2])
    ELSE IF tail_committed_version \in DOMAIN d
    THEN Found(tail_committed_version, d[tail_committed_version])
    ELSE NotFound

GetDirty(d, entry, tail_committed_version) ==
    IF tail_committed_version \in DOMAIN d
    THEN Found(tail_committed_version, d[tail_committed_version])
    ELSE IF InStore(entry) THEN Found(entry[1], entry[2])
    ELSE NotFound

\* what the client sees of a finished GET: CraqClient.get turns every status
\* but OK into (False, None)
GetResult(o, r, a) ==
    [NoRes EXCEPT !.type = "GET", !.key = o.key, !.rep = r,
                  !.status = a.status, !.val = a.val, !.ver = a.ver,
                  !.tv = o.tv, !.fRet = o.fRet, !.fAck = o.fAck, !.busy = o.busy,
                  !.fl = o.fl, !.mine = o.mine, !.ns = o.ns, !.sk = o.sk,
                  !.nf = nsets, !.ek = subm[o.key]]

\* the GET as invoked, with what is known of the key's history then
GetOp(c, r, k) ==
    [Idle EXCEPT !.type = "GET", !.key = k, !.origin = r,
                 !.fRet = maxRet[k], !.fAck = lastOk[k][2],
                 !.busy = SetInFlight(k), !.fl = InFlightVal(k),
                 !.ns = nsets, !.sk = subm[k],
                 !.mine = IF res[c].type = "GET" /\ res[c].key = k
                          THEN res[c].ver ELSE 0]

\* CraqClient.get sends the GET to a replica.  Its _get takes the key's lock
\* and either answers from the clean map or, with a dirty entry, sends a
\* QUERY to next and waits, holding the lock.
ClientGet(c, r, k) ==
    /\ op[c].type = "idle"
    /\ ngets < MaxGets
    /\ LockFree(locks[r], k)
    /\ ngets' = ngets + 1
    /\ IF HasDirty(temp_store[r][k])
       THEN /\ locks' = [locks EXCEPT ![r][k] = c]
            /\ op' = [op EXCEPT ![c] =
                         [GetOp(c, r, k) EXCEPT !.at = next(r),
                                                !.phase = "call"]]
            /\ UNCHANGED <<res, maxRet>>
       ELSE LET a == GetClean(store[r][k])
            IN  /\ res' = [res EXCEPT ![c] = GetResult(GetOp(c, r, k), r, a)]
                /\ maxRet' = [maxRet EXCEPT ![k] = Max(@, a.ver)]
                /\ UNCHANGED <<locks, op>>
    /\ UNCHANGED <<store, temp_store, nsets, nqueries, nfails, subm, lastOk>>

\* a client sends a QUERY to a replica
ClientQuery(c, r, k) ==
    /\ op[c].type = "idle"
    /\ nqueries < MaxQueries
    /\ nqueries' = nqueries + 1
    /\ op' = [op EXCEPT ![c] =
                 [Idle EXCEPT !.type = "QUERY", !.key = k, !.origin = r,
                              !.at = r, !.phase = "call",
                              !.fAck = lastOk[k][2],
                              !.busy = SetInFlight(k), !.ns = nsets,
                              !.sk = subm[k]]]
    /\ UNCHANGED <<store, temp_store, locks, res, nsets, ngets, nfails,
                   subm, lastOk, maxRet>>

\* what the client sees of a finished QUERY
QueryResult(o, status, ver, tv) ==
    [NoRes EXCEPT !.type = "QUERY", !.key = o.key, !.rep = o.origin,
                  !.status = status, !.ver = ver, !.tv = tv,
                  !.fAck = o.fAck, !.busy = o.busy, !.ns = o.ns,
                  !.sk = o.sk, !.nf = nsets, !.ek = subm[o.key]]

\* if self.next is None: only the tail answers a QUERY itself
AnswersQueryAnywhere(r) == TRUE

AnswersQuery(r) == next(r) = None

\* _query on the replica the QUERY reached.  The tail answers the version of
\* its clean entry, and fails on a key it does not hold (self.store[req.key]
\* raises); every other replica takes the key's lock and forwards to next.
QueryRecv(c) ==
    LET o == op[c]
        r == o.at
        k == o.key
        e == store[r][k]
        tv == IF r = ChainTail /\ InStore(e) THEN e[1] ELSE 0
    IN  /\ o.type \in {"GET", "QUERY"}
        /\ o.phase = "call"
        /\ LockFree(locks[r], k)
        /\ IF ~AnswersQuery(r)
           THEN /\ locks' = [locks EXCEPT ![r][k] = c]
                /\ op' = [op EXCEPT ![c].at = next(r)]
                /\ UNCHANGED res
           ELSE /\ UNCHANGED locks
                /\ \E how \in IF InStore(e) THEN {"OK"} ELSE {"ERR", "EXC"} :
                      LET ver == IF InStore(e) THEN e[1] ELSE None
                      IN  IF o.type = "QUERY" /\ o.origin = r
                          THEN /\ op' = [op EXCEPT ![c] = Idle]
                               /\ res' = [res EXCEPT ![c] =
                                            QueryResult(o, how, ver, tv)]
                          ELSE /\ op' = [op EXCEPT ![c].at = prev(r),
                                                   ![c].phase = "resp",
                                                   ![c].st = how,
                                                   ![c].rv = ver,
                                                   ![c].tv = tv]
                               /\ UNCHANGED res
        /\ UNCHANGED <<store, temp_store, nsets, ngets, nqueries, nfails,
                       subm, lastOk, maxRet>>

\* _query on a replica that forwarded: it returns what its send returned
\* and releases the lock; when the send raised, so does the handler.
QueryRelay(c) ==
    LET o == op[c]
        r == o.at
        k == o.key
    IN  /\ o.type \in {"GET", "QUERY"}
        /\ o.phase = "resp"
        /\ ~(o.type = "GET" /\ r = o.origin)
        /\ locks' = [locks EXCEPT ![r][k] = None]
        /\ \E how \in IF o.st = "EXC" THEN {"ERR", "EXC"} ELSE {o.st} :
              IF r = o.origin
              THEN /\ op' = [op EXCEPT ![c] = Idle]
                   /\ res' = [res EXCEPT ![c] =
                                QueryResult(o, how, o.rv, o.tv)]
              ELSE /\ op' = [op EXCEPT ![c].at = prev(r), ![c].st = how]
                   /\ UNCHANGED res
        /\ UNCHANGED <<store, temp_store, nsets, ngets, nqueries, nfails,
                       subm, lastOk, maxRet>>

\* _get after its QUERY returned: the arbitration between the dirty and the
\* clean entry.  A QUERY that raised leaves the handler by the exception.
GetResume(c) ==
    LET o == op[c]
        r == o.at
        k == o.key
        a == IF o.st = "EXC"
             THEN [status |-> "FAIL", val |-> 0, ver |-> 0]
             ELSE GetDirty(temp_store[r][k], store[r][k],
                           IF o.st = "OK" THEN o.rv ELSE None)
    IN  /\ o.type = "GET"
        /\ o.phase = "resp"
        /\ r = o.origin
        /\ locks' = [locks EXCEPT ![r][k] = None]
        /\ op' = [op EXCEPT ![c] = Idle]
        /\ res' = [res EXCEPT ![c] = GetResult(o, r, a)]
        /\ maxRet' = [maxRet EXCEPT ![k] = Max(@, a.ver)]
        /\ UNCHANGED <<store, temp_store, nsets, ngets, nqueries, nfails,
                       subm, lastOk>>

Next ==
    \/ \E c \in Writers, k \in Keys : ClientSet(c, k)
    \/ \E c \in Clients : SetRecv(c)
    \/ \E c \in Clients : SetFail(c)
    \/ \E c \in Clients : SetReplyFail(c)
    \/ \E c \in Clients : SetResume(c)
    \/ \E c \in Readers, r \in Replicas, k \in Keys : ClientGet(c, r, k)
    \/ \E c \in Readers, r \in Replicas, k \in Keys : ClientQuery(c, r, k)
    \/ \E c \in Clients : QueryRecv(c)
    \/ \E c \in Clients : QueryRelay(c)
    \/ \E c \in Clients : GetResume(c)

Spec == Init /\ [][Next]_vars

\* Fair scheduling: a handler that can take its next step takes it in the
\* end (every handler runs in a thread of its own and a send returns).  The
\* clients and the failures of the transport are under no obligation.
Fairness ==
    \A c \in Clients :
        /\ WF_vars(SetRecv(c))
        /\ WF_vars(SetResume(c))
        /\ WF_vars(QueryRecv(c))
        /\ WF_vars(QueryRelay(c))
        /\ WF_vars(GetResume(c))

\* the fair executions are those of at most MaxRequests client requests
MaxRequests == 4

MayRequest == nsets + ngets + nqueries < MaxRequests

FairNext ==
    \/ \E c \in Writers, k \in Keys : MayRequest /\ ClientSet(c, k)
    \/ \E c \in Clients : SetRecv(c)
    \/ \E c \in Clients : SetFail(c)
    \/ \E c \in Clients : SetReplyFail(c)
    \/ \E c \in Clients : SetResume(c)
    \/ \E c \in Readers, r \in Replicas, k \in Keys :
           MayRequest /\ ClientGet(c, r, k)
    \/ \E c \in Readers, r \in Replicas, k \in Keys :
           MayRequest /\ ClientQuery(c, r, k)
    \/ \E c \in Clients : QueryRecv(c)
    \/ \E c \in Clients : QueryRelay(c)
    \/ \E c \in Clients : GetResume(c)

FairSpec == Init /\ [][FairNext]_vars /\ Fairness

\* The same chain serving one key more, for what holds between different
\* keys; its executions are those of at most MaxTwoKeyRequests requests.
TwoKeys == 1..(NumKeys + 1)

MaxTwoKeyRequests == 3

MayRequestTwo == nsets + ngets + nqueries < MaxTwoKeyRequests

InitTwoKeys ==
    /\ store = [r \in Replicas |-> [k \in TwoKeys |-> NoEntry]]
    /\ temp_store = [r \in Replicas |-> [k \in TwoKeys |-> NoDirty]]
    /\ locks = [r \in Replicas |-> [k \in TwoKeys |-> None]]
    /\ op = [c \in Clients |-> Idle]
    /\ res = [c \in Clients |-> NoRes]
    /\ nsets = 0
    /\ ngets = 0
    /\ nqueries = 0
    /\ nfails = 0
    /\ subm = [k \in TwoKeys |-> 0]
    /\ lastOk = [k \in TwoKeys |-> <<0, 0>>]
    /\ maxRet = [k \in TwoKeys |-> 0]

NextTwoKeys ==
    \/ \E c \in Writers, k \in TwoKeys : MayRequestTwo /\ ClientSet(c, k)
    \/ \E c \in Clients : SetRecv(c)
    \/ \E c \in Clients : SetFail(c)
    \/ \E c \in Clients : SetReplyFail(c)
    \/ \E c \in Clients : SetResume(c)
    \/ \E c \in Readers, r \in Replicas, k \in TwoKeys :
           MayRequestTwo /\ ClientGet(c, r, k)
    \/ \E c \in Readers, r \in Replicas, k \in TwoKeys :
           MayRequestTwo /\ ClientQuery(c, r, k)
    \/ \E c \in Clients : QueryRecv(c)
    \/ \E c \in Clients : QueryRelay(c)
    \/ \E c \in Clients : GetResume(c)

TwoKeySpec == InitTwoKeys /\ [][NextTwoKeys]_vars

\* The chain with clients that also send a SET to a replica other than the
\* head; executions of at most MaxRequests client requests.
DirectNext ==
    \/ FairNext
    \/ \E c \in Writers, r \in Replicas, k \in Keys :
           MayRequest /\ ClientSetAt(c, r, k)

DirectSpec == Init /\ [][DirectNext]_vars

\* ---- the claims ------------------------------------------------------------
Gets == {c \in Clients : res[c].type = "GET"}

\* C1: read linearizability, in the form the claim gives it: a GET invoked
\* after a GET returned version v, or after a SET was answered OK, returns
\* OK with a version that is not lower than v and a value that is not older
\* than that SET's.
C1_ReadLinearizable ==
    \A c \in Gets :
        /\ (res[c].fRet > 0 \/ res[c].fAck > 0) => res[c].status = "OK"
        /\ res[c].ver >= res[c].fRet
        /\ res[c].val >= res[c].fAck

\* C2: write durability at the tail: a GET the tail handles after a SET was
\* answered OK returns OK with that SET's value or a later write's.
C2_TailDurable ==
    \A c \in Gets :
        (res[c].rep = ChainTail /\ res[c].fAck > 0)
            => (res[c].status = "OK" /\ res[c].val >= res[c].fAck)

\* C3: round trip: a GET at any replica, invoked after a SET was answered OK
\* and with no other SET submitted since or during the GET, returns OK with
\* that SET's value.
C3_RoundTrip ==
    \A c \in Gets :
        (res[c].fAck > 0 /\ res[c].fAck = res[c].nf)
            => (res[c].status = "OK" /\ res[c].val = res[c].fAck)

\* C4: monotone reads: a GET returns a version that is not lower than the
\* version the same client's previous GET of the key returned.
C4_MonotoneReads ==
    \A c \in Gets : res[c].ver >= res[c].mine

\* C5: the versions the head gives to consecutive successful SETs of a key
\* are strictly increasing: a SET answered OK has a version above that of
\* the SET answered OK before it.
C5_VersionsIncrease ==
    \A c \in Clients :
        (res[c].type = "SET" /\ res[c].status = "OK")
            => res[c].ver > res[c].pok

\* C6: a GET invoked after a SET was answered OK returns OK, and its value
\* is the value of that SET or of a SET in flight during the GET.
C6_GetAfterSetOk ==
    \A c \in Gets :
        res[c].fAck > 0 =>
            /\ res[c].status = "OK"
            /\ \/ res[c].val = res[c].fAck
               \/ res[c].busy /\ res[c].val = res[c].fl
               \/ res[c].val > res[c].ns /\ res[c].val <= res[c].nf

\* a step of a GET handler
GetStep ==
    \/ ngets' # ngets
    \/ \E c \in Clients : op[c].type = "GET" /\ op'[c] # op[c]

\* C7: a GET of a key no SET was ever submitted for returns "Key not found"
\* at every replica, and no step of a GET changes a clean or a dirty map.
C7_AbsentKey ==
    /\ [](\A c \in Gets : res[c].ek = 0 => res[c].status = "Key not found")
    /\ [][GetStep => UNCHANGED <<store, temp_store>>]_vars

C7_Witness ==
    \E c \in Gets :
        /\ res[c].ek = 0
        /\ res[c].rep = 3
        /\ res[c].status = "Key not found"

Queries == {c \in Clients : res[c].type = "QUERY"}

\* C8: a QUERY answered with a version, at whatever replica it was sent to,
\* carries the version of the tail's clean entry at the moment the tail
\* handled it; after one SET of a fresh key that went through the chain and
\* no other SET, a QUERY is answered with version 1.
C8_QueryTailVersion ==
    \A c \in Queries :
        /\ res[c].status = "OK" => (res[c].ver = res[c].tv /\ res[c].tv > 0)
        /\ (res[c].sk = 1 /\ res[c].ek = 1 /\ res[c].fAck > 0 /\ nfails = 0)
               => (res[c].status = "OK" /\ res[c].ver = 1)

C8_Witness ==
    \E c \in Queries :
        /\ res[c].rep = ChainHead
        /\ res[c].status = "OK"
        /\ res[c].sk = 1 /\ res[c].ek = 1 /\ res[c].fAck > 0 /\ nfails = 0
        /\ res[c].ver = 1

\* C9: a SET whose forward failed at some hop is not answered OK.
C9_FailureSurfaces ==
    \A c \in Clients :
        (res[c].type = "SET" /\ res[c].failed) => res[c].status # "OK"

\* C10: the tail's dirty map is empty for every key.
C10_TailDirtyEmpty ==
    \A k \in Keys : ~HasDirty(temp_store[ChainTail][k])

C10_Witness ==
    \E k \in Keys :
        /\ InStore(store[ChainTail][k])
        /\ ~HasDirty(temp_store[ChainTail][k])
        /\ \E r \in Replicas : HasDirty(temp_store[r][k])


\* C11: on every replica and for every key, each dirty version is strictly
\* greater than the version of the clean entry, if there is a clean entry.
C11_DirtyAboveClean ==
    \A r \in Replicas, k \in Keys :
        InStore(store[r][k]) =>
            \A v \in DOMAIN temp_store[r][k] : v > store[r][k][1]

\* the send of the SET handler of client c at replica r has returned
SendReturned(c, r, k) ==
    /\ op[c].type = "SET"
    /\ op[c].phase = "resp"
    /\ op[c].at = r
    /\ op[c].key = k

\* C12: a non-tail replica removes a dirty version only after the send that
\* forwarded that write returned successfully, and in the same step sets the
\* clean entry to that version and value; when the send fails, the dirty
\* entry stays and the clean entry is left as it was.
C12_CommitAfterForward ==
    [][\A r \in Replicas, k \in Keys :
        /\ \A v \in DOMAIN temp_store[r][k] :
               v \notin DOMAIN temp_store'[r][k] =>
                   \E c \in Clients :
                       /\ SendReturned(c, r, k)
                       /\ op[c].ver = v
                       /\ op[c].st = "OK"
                       /\ store'[r][k] = <<v, op[c].val>>
        /\ \A c \in Clients :
               (SendReturned(c, r, k) /\ op[c].st # "OK" /\ op'[c] # op[c])
                   => /\ temp_store'[r][k] = temp_store[r][k]
                      /\ store'[r][k] = store[r][k]]_vars

\* the version a clean entry holds, 0 when there is none
CleanVersion(entry) == IF InStore(entry) THEN entry[1] ELSE 0

\* C13: the version the head assigns to a SET is one more than the highest
\* of the key's dirty versions and its clean version (0 when there is no
\* clean entry), whatever earlier failed forwards left in the dirty map.
C13_HeadVersionMax ==
    \A c \in Clients :
        (op[c].type = "SET" /\ op[c].origin = ChainHead) =>
            op[c].ver =
                MaxOf((DOMAIN temp_store[ChainHead][op[c].key] \ {op[c].ver})
                      \cup {CleanVersion(store[ChainHead][op[c].key])}) + 1


\* client c receives the answer to a GET in this step
GetAnswered(c) == res'[c] # res[c] /\ res'[c].type = "GET"

\* the answer of a GET that found the clean entry, or nothing
CleanAnswer(c, entry) ==
    IF InStore(entry)
    THEN res'[c].status = "OK" /\ res'[c].val = entry[2]
    ELSE res'[c].status = "Key not found"

\* C14: a GET on a replica whose dirty dict of the key is not empty sends a
\* QUERY to next and, with the tail's version v the QUERY brought back,
\* answers the dirty value of v when v is a dirty version, else the clean
\* value when there is a clean entry, else "Key not found"; a GET on a
\* replica without a dirty version of the key sends no QUERY and answers
\* the clean value, or "Key not found".
C14_GetArbitration ==
    [][\A c \in Clients :
        /\ (op[c].type = "idle" /\ op'[c].type = "GET") =>
               /\ HasDirty(temp_store[op'[c].origin][op'[c].key])
               /\ op'[c].at = next(op'[c].origin)
               /\ op'[c].phase = "call"
        /\ (GetAnswered(c) /\ op[c].type = "idle") =>
               /\ ~HasDirty(temp_store[res'[c].rep][res'[c].key])
               /\ nqueries' = nqueries
               /\ CleanAnswer(c, store[res'[c].rep][res'[c].key])
        /\ (GetAnswered(c) /\ op[c].type = "GET" /\ op[c].st # "EXC") =>
               LET d == temp_store[op[c].origin][op[c].key]
                   v == IF op[c].st = "OK" THEN op[c].tv ELSE None
               IN  /\ HasDirty(d)
                   /\ IF v \in DOMAIN d
                      THEN res'[c].status = "OK" /\ res'[c].val = d[v]
                      ELSE CleanAnswer(c, store[op[c].origin][op[c].key])]_vars

\* a GET was answered the dirty value of the tail's version, and the clean
\* entry of its replica holds another value
C14_Witness ==
    \E c \in Gets :
        LET d == temp_store[res[c].rep][res[c].key]
            e == store[res[c].rep][res[c].key]
        IN  /\ res[c].status = "OK"
            /\ res[c].tv \in DOMAIN d
            /\ res[c].val = d[res[c].tv]
            /\ InStore(e)
            /\ e[2] # res[c].val


\* the clean version of no replica decreases in this step
CleanVersionsGrow ==
    \A r \in Replicas, k \in Keys :
        CleanVersion(store'[r][k]) >= CleanVersion(store[r][k])

\* the clients whose last answered request was a SET of key k
LastSets(k) == {c \in Clients : res[c].type = "SET" /\ res[c].key = k}

\* with no SET of the key in flight, the tail holds the version and value of
\* the write that was assigned the highest version
TailHoldsHighest ==
    \A k \in Keys :
        ~SetInFlight(k) =>
            \A c \in LastSets(k) :
                (\A c2 \in LastSets(k) : res[c2].ver <= res[c].ver)
                    => store[ChainTail][k] = <<res[c].ver, res[c].val>>

\* C15: the writes of a key are applied on every replica in the order of
\* the versions the head assigned: the clean version of a replica never
\* decreases, and once the SETs are over the tail holds the value of the
\* write with the highest assigned version.
C15_WriteOrder ==
    /\ [][CleanVersionsGrow]_vars
    /\ []TailHoldsHighest


\* the handler of client c's request waits for the key's lock on the
\* replica it has reached, and client h's handler holds that lock
WaitsFor(c, h) ==
    /\ op[c].type # "idle"
    /\ op[c].phase = "call"
    /\ locks[op[c].at][op[c].key] = h

\* no set of requests in which every one waits for a lock another one holds
NoWaitCycle ==
    \A S \in SUBSET Clients :
        S # {} => \E c \in S : \A h \in S : ~WaitsFor(c, h)

\* C16: no reachable state has handlers waiting for each other's locks in a
\* cycle, and under fair scheduling every request in flight is answered.
C16_DeadlockFree ==
    /\ []NoWaitCycle
    /\ \A c \in Clients : (op[c].type # "idle") ~> (op[c].type = "idle")

\* a handler waits for a lock that the handler of another request holds
C16_Witness ==
    \E c, h \in Clients : c # h /\ WaitsFor(c, h)


\* the handler of client c's request on replica r is in its critical
\* section: r has taken the key's lock for it and not yet released it
InSection(c, r) ==
    /\ op[c].type # "idle"
    /\ op[c].origin <= r
    /\ IF op[c].phase = "call" THEN r < op[c].at ELSE r <= op[c].at

\* a request of client c that has reached a replica with the key's lock free
AtFreeLock(c) ==
    /\ op[c].type # "idle"
    /\ op[c].phase = "call"
    /\ locks[op[c].at][op[c].key] = None

\* C17: on one replica at most one handler of a key is in its critical
\* section (the key's lock is held by exactly that handler); a handler is
\* never kept waiting by the handlers of other keys; a GET of key k on
\* replica r waits for a SET of k in flight only while the SET's handler on
\* r is in its critical section, so it is answered at once by a replica the
\* write has not reached yet or has returned from.
C17_PerKeyLocks ==
    /\ \A r \in Replicas : \A k \in DOMAIN locks[r], c \in Clients :
           locks[r][k] = c <=> (InSection(c, r) /\ op[c].key = k)
    /\ \A c \in Clients :
           AtFreeLock(c) => ENABLED (SetRecv(c) \/ QueryRecv(c))
    /\ \A r \in Replicas : \A k \in DOMAIN locks[r], c \in Readers :
           (/\ op[c].type = "idle"
            /\ ngets < MaxGets
            /\ \A h \in Clients : ~(InSection(h, r) /\ op[h].key = k))
               => ENABLED ClientGet(c, r, k)

\* handlers of two keys are in their critical sections on one replica, and
\* a GET was answered while a SET of its key was in flight
C17_Witness ==
    /\ \E r \in Replicas, c, h \in Clients :
           InSection(c, r) /\ InSection(h, r) /\ op[c].key # op[h].key
    /\ \E c \in Gets : res[c].busy


\* client c's SET, sent to a replica that is not the head, is handled there
\* in this step
DirectSetStep(c) ==
    /\ op[c].type = "idle"
    /\ nsets' # nsets
    /\ \/ op'[c].type = "SET" /\ op'[c].origin # ChainHead
       \/ res'[c] # res[c] /\ res'[c].type = "SET" /\ res'[c].rep # ChainHead

\* C18: a SET without a version that reaches an interior replica or the
\* tail is rejected: the answer is not OK, the clean and the dirty maps stay
\* as they were and nothing is forwarded.
C18_RejectsUnversioned ==
    [][\A c \in Clients :
        DirectSetStep(c) =>
            /\ UNCHANGED <<store, temp_store>>
            /\ op'[c].type = "idle"
            /\ res'[c].type = "SET"
            /\ res'[c].status # "OK"]_vars


\* C19: as long as no send has failed, a GET that has the key's lock on a
\* replica finds no dirty version of the key there, so no GET takes the
\* dirty path or sends a QUERY; and a replica holds at most one dirty
\* version of a key.
C19_NoDirtyRead ==
    /\ [](nfails = 0 =>
            /\ \A c \in Clients : op[c].type # "GET"
            /\ \A r \in Replicas, k \in Keys :
                   Cardinality(DOMAIN temp_store[r][k]) <= 1)
    /\ [][\A c \in Clients :
            (nfails = 0 /\ GetAnswered(c)) =>
                /\ ~HasDirty(temp_store[res'[c].rep][res'[c].key])
                /\ op[c].type = "idle"]_vars

\* no send has failed, and a GET was answered while a SET of its key was in
\* flight, of which a replica still holds the dirty version
C19_Witness ==
    /\ nfails = 0
    /\ \E c \in Gets :
           /\ res[c].busy
           /\ SetInFlight(res[c].key)
           /\ \E r \in Replicas : HasDirty(temp_store[r][res[c].key])

\* C20: as long as no send has failed, a replica that holds a clean entry
\* of a key is followed in the chain by a replica that holds one too, of a
\* version that is not lower (a <= b <= c <= d); with no SET of the key in
\* flight the four replicas hold the same clean version and value.
C20_ChainOrder ==
    nfails = 0 =>
        \A k \in Keys :
            /\ \A r \in 1..(N - 1) :
                   InStore(store[r][k]) =>
                       /\ InStore(store[r + 1][k])
                       /\ store[r][k][1] <= store[r + 1][k][1]
            /\ ~SetInFlight(k) =>
                   \A r \in Replicas : store[r][k] = store[ChainTail][k]

\* no send has failed, a SET is on its way back and the head still holds
\* the entry of an earlier SET, of a lower version than its successor's
C20_Witness ==
    /\ nfails = 0
    /\ \E k \in Keys :
           /\ SetInFlight(k)
           /\ InStore(store[ChainHead][k])
           /\ store[ChainHead][k][1] < store[ChainHead + 1][k][1]

\* Without a failed forward the properties refuted above through a failed
\* forward hold in every reachable state.
WithoutFailedForward ==
    nfails = 0 =>
        /\ C1_ReadLinearizable
        /\ C2_TailDurable
        /\ C3_RoundTrip
        /\ C4_MonotoneReads
        /\ C5_VersionsIncrease
        /\ C6_GetAfterSetOk
        /\ C9_FailureSurfaces
        /\ C11_DirtyAboveClean
        /\ C13_HeadVersionMax
        /\ TailHoldsHighest

=============================================================================
